---------------------------- MODULE Spec2Model ----------------------------
(***************************************************************************)
(* SkSL::ThreadContext (third_party/skia/src/sksl/SkSLThreadContext.cpp):  *)
(* the per-thread compilation context of the SkSL compiler, its            *)
(* constructor and destructor over the compiler's shared slots, the        *)
(* fragment-processor frame stack, and the per-thread instance registry in *)
(* its two build variants (thread_local, and the STARBOARD port).          *)
(***************************************************************************)
EXTENDS Integers, Sequences, FiniteSets, TLC

(* ------------------------------ bounds --------------------------------- *)
\* Threads that call into the registry.
NumThreads == 2
\* ThreadContext objects constructed in one run (each gets a fresh id).
MaxCtx == 2
\* Depth of the fragment-processor frame stack.
MaxFrames == 2
\* Length of a shader builder's declaration buffer.
MaxDecls == 1
\* Program elements accumulated by one context.
MaxElements == 1
\* Errors one reporter handles.
MaxErrors == 1

(* ----------------------------- value sets ------------------------------ *)
Threads == 1..NumThreads
CtxIds == 1..MaxCtx
\* nullptr for a ThreadContext*.
NullCtx == 0
\* nullptr for the compiler's borrowed pointers (reporter, config, pool, builtins).
Null == <<"null", 0>>
\* A null std::shared_ptr<SymbolTable>: the empty scope chain.
NullTable == <<>>
\* The SKSL_STANDALONE / STARBOARD build variants of the registry.
Variants == {"thread_local", "STARBOARD"}
\* Parsed modules a context can be constructed from.
Modules == {1, 2}
Kinds == {"fragment", "vertex"}
ExternalFunctions == {"ef"}
\* GrFragmentProcessor::ProgramImpl::EmitArgs handles; each names its fFragBuilder.
EmitArgsSet == {1, 2}
Processors == {"fp"}
Decls == {"a", "b"}
\* Reporters a driver installs with SetErrorReporter.
UserReporters == {<<"user", 1>>}
\* SkSL::Modifiers values handed to Modifiers().
ModifierValues == {"m1", "m2"}

\* The compiler's own reporter: what fContext->fErrors holds at rest.
BaseReporter(k) == <<"base", k>>
\* &ctx.fDefaultErrorReporter
DefaultReporterOf(c) == <<"default", c>>
\* Every ErrorReporter object: the drivers', the compilers' own, the contexts' defaults.
Reporters ==
    UserReporters \cup {BaseReporter(k) : k \in Threads} \cup {DefaultReporterOf(c) : c \in CtxIds}
\* ctx.fConfig.get()
ConfigOf(c) == <<"config", c>>
\* ctx.fModifiersPool.get()
ModifiersPoolOf(c) == <<"pool", c>>

\* ParsedModule{fSymbols, fElements} of module m: a root scope and a builtin map.
ParsedModule(m) ==
    [fSymbols  |-> << [id |-> <<"module", m>>, builtin |-> TRUE, symbols |-> {}] >>,
     fElements |-> <<"elements", m>>]

ProgramSettings == [fDSLUseMemoryPool : BOOLEAN, fExternalFunctions : SUBSET ExternalFunctions]

\* The constructor's arguments (kind, settings, module, isModule).
CtorArgs ==
    { [kind |-> "fragment", settings |-> [fDSLUseMemoryPool |-> TRUE,  fExternalFunctions |-> {"ef"}],
       module |-> 1, isModule |-> FALSE],
      [kind |-> "vertex",   settings |-> [fDSLUseMemoryPool |-> FALSE, fExternalFunctions |-> {}],
       module |-> 2, isModule |-> FALSE],
      [kind |-> "fragment", settings |-> [fDSLUseMemoryPool |-> TRUE,  fExternalFunctions |-> {}],
       module |-> 2, isModule |-> TRUE] }

(* ------------------------------- state --------------------------------- *)
VARIABLES
    variant,         \* which #if branch of the registry the build holds
    useNodePools,    \* fCaps.useNodePools() of the build
    proc,            \* the process: running, aborted at a source site, or past undefined behaviour
    tlInstance,      \* thread_local ThreadContext* instance, per thread
    gInstance,       \* STARBOARD: the namespace-scope ThreadContext* instance
    keyInited,       \* STARBOARD: s_once_flag has run, s_thread_local_key is valid
    sbLocal,         \* STARBOARD: SbThreadGetLocalValue(s_thread_local_key), per thread
    ctx,             \* the ThreadContext objects, by id
    nextId,          \* id of the next ThreadContext constructed
    compiler,        \* per compiler: fContext->{fErrors,fConfig,fModifiersPool,fBuiltins}, fSymbolTable
    alreadyIncluded, \* modules whose builtin map has elements marked already-included
    attachedPools,   \* contexts whose fPool is attached to its thread
    builder,         \* fFragBuilder->fDeclarations, per shader builder
    lastSet,         \* history: the argument of the last SetInstance each thread completed
    lifo,            \* history: every destructor so far ran on the newest live context of its compiler
    fErrorCount,     \* ErrorReporter::fErrorCount of each reporter
    interned         \* the modifiers each context's own ModifiersPool holds

vars == <<variant, useNodePools, proc, tlInstance, gInstance, keyInited, sbLocal, ctx, nextId,
          compiler, alreadyIncluded, attachedPools, builder, lastSet, lifo, fErrorCount, interned>>

registryVars == <<tlInstance, gInstance, keyInited, sbLocal>>

\* The process runs; a failed assertion or SK_ABORT at `site` ended it; or it ran
\* into undefined behaviour at `site` and what it does from there is unknown.
RunningProc == [status |-> "running", site |-> ""]
Aborted(site) == [status |-> "aborted", site |-> site]
Undefined(site) == [status |-> "undefined", site |-> site]
Running == proc.status = "running"

\* A ThreadContext that has not been constructed yet.
NoCtx ==
    [state |-> "unborn", fCompiler |-> 0, fOldErrorReporter |-> Null, fOldModifiersPool |-> Null,
     fOldConfig |-> Null, fSettings |-> [fDSLUseMemoryPool |-> FALSE, fExternalFunctions |-> {}],
     fPool |-> FALSE, fModifiersPool |-> Null,
     fConfig |-> [fKind |-> "fragment",
                  fSettings |-> [fDSLUseMemoryPool |-> FALSE, fExternalFunctions |-> {}],
                  fIsBuiltinCode |-> FALSE],
     fStack |-> <<>>, fProgramElements |-> 0,
     pre |-> [fErrors |-> Null, fConfig |-> Null, fModifiersPool |-> Null,
              fBuiltins |-> Null, fSymbolTable |-> NullTable]]

\* The compiler at rest, before any ThreadContext was constructed over it.
RestCompiler(k) ==
    [fErrors |-> BaseReporter(k), fConfig |-> Null, fModifiersPool |-> Null,
     fBuiltins |-> Null, fSymbolTable |-> NullTable]

Init ==
    /\ variant \in Variants
    /\ useNodePools \in BOOLEAN
    /\ proc = RunningProc
    /\ tlInstance = [t \in Threads |-> NullCtx]
    /\ gInstance = NullCtx
    /\ keyInited = FALSE
    /\ sbLocal = [t \in Threads |-> NullCtx]
    /\ ctx = [c \in CtxIds |-> NoCtx]
    /\ nextId = 1
    /\ compiler = [k \in Threads |-> RestCompiler(k)]
    /\ alreadyIncluded = {}
    /\ attachedPools = {}
    /\ builder = [e \in EmitArgsSet |-> <<>>]
    /\ lastSet = [t \in Threads |-> <<"never", NullCtx>>]
    /\ lifo = TRUE
    /\ fErrorCount = [r \in Reporters |-> 0]
    /\ interned = [c \in CtxIds |-> {}]


(* ------------------- constructor and destructor ------------------------ *)
\* SymbolTable::Push(&table, isBuiltin): a new scope whose parent is the old table.
Push(table, isBuiltin, id) ==
    Append(table, [id |-> id, builtin |-> isBuiltin, symbols |-> {}])

\* SymbolTable::Pop(&table): the table becomes the parent of the current scope.
Pop(table) == SubSeq(table, 1, Len(table) - 1)

\* symbols.addWithoutOwnership(ef) for every ef of the set, on the innermost scope.
AddWithoutOwnership(table, efs) ==
    [table EXCEPT ![Len(table)].symbols = @ \cup efs]

\* A setupSymbolTable that registers the external functions before it pushes.
setupSymbolTable_AddsBeforePush(table, isBuiltinCode, settings, c) ==
    Push(AddWithoutOwnership(table, settings.fExternalFunctions), isBuiltinCode, <<"ctx", c>>)

\* ThreadContext::setupSymbolTable for context c: push a scope tagged with the
\* config's fIsBuiltinCode, then register the settings' external functions in it.
setupSymbolTable(table, isBuiltinCode, settings, c) ==
    AddWithoutOwnership(Push(table, isBuiltinCode, <<"ctx", c>>), settings.fExternalFunctions)

\* A constructor that creates the pool for a builtin-module compile too.
CreatesPool_IgnoresIsModule(a, caps) == caps /\ a.settings.fDSLUseMemoryPool

\* Whether the constructor creates and attaches a Pool (lines 46-50).
CreatesPool(a, caps) == ~a.isModule /\ caps /\ a.settings.fDSLUseMemoryPool

\* A constructor that snapshots the reporter only after installing its own.
CtorContext_LateSnapshot(cmp, k, c, a, caps) ==
    [state |-> "live", fCompiler |-> k,
     fOldErrorReporter |-> DefaultReporterOf(c),
     fOldModifiersPool |-> cmp.fModifiersPool,
     fOldConfig |-> cmp.fConfig,
     fSettings |-> a.settings,
     fPool |-> CreatesPool(a, caps),
     fModifiersPool |-> IF ~a.isModule THEN ModifiersPoolOf(c) ELSE Null,
     fConfig |-> [fKind |-> a.kind, fSettings |-> a.settings, fIsBuiltinCode |-> a.isModule],
     fStack |-> <<>>, fProgramElements |-> 0,
     pre |-> cmp]

\* A constructor that never saves the config it finds installed.
CtorContext_NoConfigSnapshot(cmp, k, c, a, caps) ==
    [state |-> "live", fCompiler |-> k,
     fOldErrorReporter |-> cmp.fErrors,
     fOldModifiersPool |-> cmp.fModifiersPool,
     fOldConfig |-> Null,
     fSettings |-> a.settings,
     fPool |-> CreatesPool(a, caps),
     fModifiersPool |-> IF ~a.isModule THEN ModifiersPoolOf(c) ELSE Null,
     fConfig |-> [fKind |-> a.kind, fSettings |-> a.settings, fIsBuiltinCode |-> a.isModule],
     fStack |-> <<>>, fProgramElements |-> 0,
     pre |-> cmp]

\* The ThreadContext object the constructor builds for arguments a over compiler
\* k whose slots are cmp; `pre` is a history copy of the slots it found.
CtorContext(cmp, k, c, a, caps) ==
    [state |-> "live", fCompiler |-> k,
     fOldErrorReporter |-> cmp.fErrors,
     fOldModifiersPool |-> cmp.fModifiersPool,
     fOldConfig |-> cmp.fConfig,
     fSettings |-> a.settings,
     fPool |-> CreatesPool(a, caps),
     fModifiersPool |-> IF ~a.isModule THEN ModifiersPoolOf(c) ELSE Null,
     fConfig |-> [fKind |-> a.kind, fSettings |-> a.settings, fIsBuiltinCode |-> a.isModule],
     fStack |-> <<>>, fProgramElements |-> 0,
     pre |-> cmp]

\* A constructor that pushes its scope on the table it finds instead of the module's.
CtorCompiler_KeepsTable(cmp, c, a) ==
    [cmp EXCEPT
       !.fModifiersPool = IF ~a.isModule THEN ModifiersPoolOf(c) ELSE @,
       !.fConfig = ConfigOf(c),
       !.fErrors = DefaultReporterOf(c),
       !.fBuiltins = ParsedModule(a.module).fElements,
       !.fSymbolTable = setupSymbolTable(cmp.fSymbolTable, a.isModule, a.settings, c)]

\* The compiler's slots after the constructor of context c ran with arguments a.
CtorCompiler(cmp, c, a) ==
    [cmp EXCEPT
       !.fModifiersPool = IF ~a.isModule THEN ModifiersPoolOf(c) ELSE @,
       !.fConfig = ConfigOf(c),
       !.fErrors = DefaultReporterOf(c),
       !.fBuiltins = ParsedModule(a.module).fElements,
       !.fSymbolTable = setupSymbolTable(ParsedModule(a.module).fSymbols, a.isModule, a.settings, c)]

\* ThreadContext::Settings() for the compiler with slots cmp: Context().fConfig->fSettings.
Settings(cmp) == ctx[cmp.fConfig[2]].fConfig.fSettings

\* ThreadContext::SymbolTable() for the compiler with slots cmp.
SymbolTable(cmp) == cmp.fSymbolTable

\* A destructor without its assertion.
DtorAssertHolds_Missing(cmp, x) == TRUE

\* The destructor's SkASSERT(fProgramElements.empty()) on the null-table branch.
DtorAssertHolds(cmp, x) ==
    SymbolTable(cmp) # NullTable \/ x.fProgramElements = 0

\* A destructor that forgets to restore the config slot.
DtorCompiler_ConfigNotRestored(cmp, x) ==
    [cmp EXCEPT
       !.fSymbolTable = IF SymbolTable(cmp) # NullTable THEN NullTable ELSE @,
       !.fErrors = x.fOldErrorReporter,
       !.fModifiersPool = x.fOldModifiersPool]

\* A destructor that leaves the reporter current at destruction installed.
DtorCompiler_KeepsReporter(cmp, x) ==
    [cmp EXCEPT
       !.fSymbolTable = IF SymbolTable(cmp) # NullTable THEN NullTable ELSE @,
       !.fConfig = x.fOldConfig,
       !.fModifiersPool = x.fOldModifiersPool]

\* The compiler's slots after the destructor of context x ran to its end.
DtorCompiler(cmp, x) ==
    [cmp EXCEPT
       !.fSymbolTable = IF SymbolTable(cmp) # NullTable THEN NullTable ELSE @,
       !.fErrors = x.fOldErrorReporter,
       !.fConfig = x.fOldConfig,
       !.fModifiersPool = x.fOldModifiersPool]

\* What is left of a destroyed ThreadContext: its id stays used, its members are gone.
Destroyed(x) == [NoCtx EXCEPT !.state = "destroyed", !.fCompiler = x.fCompiler]

Live(c) == c \in CtxIds /\ ctx[c].state = "live"

\* c is the most recently constructed live context of its compiler.
IsNewestLive(c) ==
    \A d \in CtxIds : (d > c /\ ctx[d].fCompiler = ctx[c].fCompiler) => ctx[d].state # "live"

\* No context of compiler k is live.
NoLive(k) == \A c \in CtxIds : ctx[c].fCompiler = k => ctx[c].state # "live"

\* `delete p` does not abort: p is null or its destructor's assertion holds.
DeleteCompletes(p) ==
    p = NullCtx \/ DtorAssertHolds(compiler[ctx[p].fCompiler], ctx[p])

\* `delete p`: nothing for nullptr, else ~ThreadContext; a failed assertion aborts
\* the process before any slot is restored.
Delete(p) ==
    IF p = NullCtx
    THEN UNCHANGED <<ctx, compiler, attachedPools, proc, lifo, interned>>
    ELSE LET x == ctx[p]
             k == x.fCompiler
         IN  IF ~DtorAssertHolds(compiler[k], x)
             THEN /\ proc' = Aborted("~ThreadContext:76")
                  /\ UNCHANGED <<ctx, compiler, attachedPools, lifo, interned>>
             ELSE /\ compiler' = [compiler EXCEPT ![k] = DtorCompiler(compiler[k], x)]
                  /\ ctx' = [ctx EXCEPT ![p] = Destroyed(x)]
                  /\ interned' = [interned EXCEPT ![p] = {}]
                  /\ attachedPools' = IF x.fPool THEN attachedPools \ {p} ELSE attachedPools
                  /\ lifo' = (lifo /\ IsNewestLive(p))
                  /\ proc' = proc

\* The context a thread's registry slot owns (live or not).
Installed(c) ==
    IF variant = "thread_local"
    THEN \E t \in Threads : tlInstance[t] = c
    ELSE gInstance = c

\* Live contexts of thread t that no registry slot owns: the caller still holds them.
Held(t) == {c \in CtxIds : Live(c) /\ ctx[c].fCompiler = t /\ ~Installed(c)}

\* new ThreadContext(compiler of t, a.kind, a.settings, a.module, a.isModule)
Construct(t, a) ==
    /\ Running
    /\ nextId <= MaxCtx
    /\ ctx' = [ctx EXCEPT ![nextId] = CtorContext(compiler[t], t, nextId, a, useNodePools)]
    /\ compiler' = [compiler EXCEPT ![t] = CtorCompiler(compiler[t], nextId, a)]
    /\ alreadyIncluded' = alreadyIncluded \ {a.module}
    /\ attachedPools' = IF CreatesPool(a, useNodePools)
                        THEN attachedPools \cup {nextId} ELSE attachedPools
    /\ nextId' = nextId + 1
    /\ UNCHANGED <<variant, useNodePools, proc, registryVars, builder, lastSet, lifo,
                   fErrorCount, interned>>

\* The caller destroys a context it still holds (scope exit, unique_ptr reset).
Destroy(t, c) ==
    /\ Running
    /\ c \in Held(t)
    /\ Delete(c)
    /\ UNCHANGED <<variant, useNodePools, registryVars, nextId, alreadyIncluded, builder, lastSet,
                   fErrorCount>>


(* ------------------------ the instance registry ------------------------ *)
\* SbThreadGetLocalValue(s_thread_local_key) on thread t: NULL for a key that
\* was never created.
SbThreadGetLocalValue(t) == IF keyInited THEN sbLocal[t] ELSE NullCtx

\* An IsActive() that asks the pointer Instance() dereferences.
IsActive_FromInstancePointer(t) ==
    IF variant = "thread_local" THEN tlInstance[t] # NullCtx ELSE gInstance # NullCtx

\* ThreadContext::IsActive() on thread t.
IsActive(t) ==
    IF variant = "thread_local"
    THEN tlInstance[t] # NullCtx
    ELSE SbThreadGetLocalValue(t) # NullCtx

\* The pointer ThreadContext::Instance() dereferences on thread t.
InstancePtr(t) == IF variant = "thread_local" THEN tlInstance[t] ELSE gInstance

\* SkASSERT / SkASSERTF(cond): the call goes on iff cond holds, else the process aborts.
SkASSERT(cond) == cond

\* What a call of ThreadContext::Instance() on thread t can do: return a
\* reference to context c (<<"ref", c>>), abort on its assertion, or, for the
\* unchecked dereference of a null pointer, anything the build makes of it.
InstanceOutcomes(t) ==
    IF variant = "thread_local"
    THEN IF SkASSERT(tlInstance[t] # NullCtx)
         THEN {<<"ref", tlInstance[t]>>} ELSE {<<"abort", NullCtx>>}
    ELSE IF gInstance # NullCtx
         THEN {<<"ref", gInstance>>} ELSE {<<"abort", NullCtx>>, <<"undefined", NullCtx>>}

\* The process state after a call that did not return normally.
Fails(outcome) ==
    /\ outcome[1] # "ref"
    /\ proc' = (IF outcome[1] = "abort" THEN Aborted("Instance") ELSE Undefined("Instance:193"))

\* A caller on thread t calls ThreadContext::Instance() and only reads the result.
CallInstance(t) ==
    /\ Running
    /\ \E o \in InstanceOutcomes(t) :
          \/ o[1] = "ref" /\ UNCHANGED proc
          \/ Fails(o)
    /\ UNCHANGED <<variant, useNodePools, registryVars, ctx, nextId, compiler,
                   alreadyIncluded, attachedPools, builder, lastSet, lifo, fErrorCount, interned>>

\* Whether SetInstance's precondition assertion lets the call go on.
SetInstanceAsserts(t, p) ==
    IF variant = "thread_local"
    THEN SkASSERT((tlInstance[t] = NullCtx) # (p = NullCtx))
    ELSE TRUE

\* The pointer SetInstance deletes on thread t.
SetInstanceDeletes(t) == IF variant = "thread_local" THEN tlInstance[t] ELSE gInstance

\* The registry after SetInstance(p) on thread t ran to its end.
SetInstanceStores(t, p) ==
    IF variant = "thread_local"
    THEN /\ tlInstance' = [tlInstance EXCEPT ![t] = p]
         /\ UNCHANGED <<gInstance, keyInited, sbLocal>>
    ELSE /\ keyInited' = TRUE
         /\ sbLocal' = [sbLocal EXCEPT ![t] = p]
         /\ gInstance' = p
         /\ UNCHANGED tlInstance

\* ThreadContext::SetInstance(std::unique_ptr<ThreadContext>(p)) on thread t; p is
\* null or a context the caller holds.
SetInstance(t, p) ==
    /\ Running
    /\ p \in Held(t) \cup {NullCtx}
    /\ IF ~SetInstanceAsserts(t, p)
       THEN /\ proc' = Aborted("SetInstance:168")
            /\ UNCHANGED <<registryVars, ctx, compiler, attachedPools, lifo, lastSet, interned>>
       ELSE /\ Delete(SetInstanceDeletes(t))
            /\ IF DeleteCompletes(SetInstanceDeletes(t))
               THEN /\ SetInstanceStores(t, p)
                    /\ lastSet' = [lastSet EXCEPT ![t] = <<"set", p>>]
               ELSE UNCHANGED <<registryVars, lastSet>>
    /\ UNCHANGED <<variant, useNodePools, nextId, alreadyIncluded, builder, fErrorCount>>

(* ------------------- operations on the active context ------------------ *)
\* emitArgs->fFragBuilder: the shader builder an EmitArgs handle names.
FragBuilderOf(e) == e

\* A call on thread t that starts with Instance() and does not get a reference.
InstanceFails(t) ==
    \E o \in InstanceOutcomes(t) : Fails(o)

\* Instance() returns a reference to a context on thread t.
HasInstance(t) == \E o \in InstanceOutcomes(t) : o[1] = "ref"

\* Index of the innermost frame of `stack` whose builder is b (0: none).
InnermostOn(stack, b) ==
    LET on == {i \in 1..Len(stack) : FragBuilderOf(stack[i].fEmitArgs) = b}
    IN  IF on = {} THEN 0 ELSE CHOOSE i \in on : \A j \in on : j <= i

\* dsl::PushSymbolTable(): a new scope on the compiler's table, tagged like its parent.
DslPushSymbolTable(table, id) ==
    Push(table, IF table = NullTable THEN FALSE ELSE table[Len(table)].builtin, id)

\* The frame stack after StartFragmentProcessor pushed {processor, emitArgs, {}} and
\* swapped the builder's declarations (decls) into the new frame's saved buffer.
\* pre and log are history: the buffer before the Start, and what the frame emitted.
StartStack(stack, processor, emitArgs, decls) ==
    Append(stack, [fProcessor |-> processor, fEmitArgs |-> emitArgs,
                   fSavedDeclarations |-> decls, pre |-> decls, log |-> <<>>])

\* A Start that copies the declarations into the frame and leaves them in place.
StartDeclarations_CopyNotSwap(decls) == decls

\* The builder's declarations after StartFragmentProcessor's swap: the new
\* frame's empty StatementArray.
StartDeclarations(decls) == <<>>

\* The builder's declarations after EndFragmentProcessor's swap with the top frame.
EndDeclarations(stack) == stack[Len(stack)].fSavedDeclarations

\* An EndFragmentProcessor that leaves its frame on the stack.
EndStack_KeepsFrame(stack) == stack

\* The frame stack after EndFragmentProcessor's pop.
EndStack(stack) == SubSeq(stack, 1, Len(stack) - 1)

\* ThreadContext::StartFragmentProcessor(processor, emitArgs) on thread t.
StartFragmentProcessor(t, processor, emitArgs) ==
    /\ Running
    /\ \/ /\ InstanceFails(t)
          /\ UNCHANGED <<ctx, compiler, builder>>
       \/ /\ HasInstance(t)
          /\ LET c == InstancePtr(t)
                 k == ctx[c].fCompiler
                 b == FragBuilderOf(emitArgs)
             IN  /\ Len(ctx[c].fStack) < MaxFrames
                 /\ ctx' = [ctx EXCEPT ![c].fStack =
                                StartStack(@, processor, emitArgs, builder[b])]
                 /\ builder' = [builder EXCEPT ![b] = StartDeclarations(@)]
                 /\ compiler' = [compiler EXCEPT ![k].fSymbolTable =
                                DslPushSymbolTable(@, <<"fp", Len(ctx[c].fStack) + 1>>)]
          /\ UNCHANGED proc
    /\ UNCHANGED <<variant, useNodePools, registryVars, nextId, alreadyIncluded,
                   attachedPools, lastSet, lifo, fErrorCount, interned>>

\* An EndFragmentProcessor without its assertion.
EndAsserts_Missing(stack) == TRUE

\* EndFragmentProcessor's SkASSERT(!instance.fStack.empty()).
EndAsserts(stack) == SkASSERT(stack # <<>>)

\* ThreadContext::EndFragmentProcessor() on thread t.
EndFragmentProcessor(t) ==
    /\ Running
    /\ \/ /\ InstanceFails(t)
          /\ UNCHANGED <<ctx, compiler, builder>>
       \/ /\ HasInstance(t)
          /\ LET c == InstancePtr(t)
                 k == ctx[c].fCompiler
                 stack == ctx[c].fStack
             IN  IF ~EndAsserts(stack)
                 THEN /\ proc' = Aborted("EndFragmentProcessor:130")
                      /\ UNCHANGED <<ctx, compiler, builder>>
                 ELSE IF stack = <<>>
                 THEN \* fStack.top() of an empty std::stack
                      /\ proc' \in {Aborted("crash"), Undefined("EndFragmentProcessor:131")}
                      /\ UNCHANGED <<ctx, compiler, builder>>
                 ELSE /\ builder' = [builder EXCEPT
                              ![FragBuilderOf(stack[Len(stack)].fEmitArgs)] = EndDeclarations(stack)]
                      /\ ctx' = [ctx EXCEPT ![c].fStack = EndStack(stack)]
                      /\ IF SymbolTable(compiler[k]) # NullTable
                         THEN /\ compiler' = [compiler EXCEPT ![k].fSymbolTable = Pop(@)]
                              /\ UNCHANGED proc
                         ELSE \* dsl::PopSymbolTable() reads through a null table
                              /\ proc' \in {Aborted("crash"), Undefined("EndFragmentProcessor:133")}
                              /\ UNCHANGED compiler
    /\ UNCHANGED <<variant, useNodePools, registryVars, nextId, alreadyIncluded,
                   attachedPools, lastSet, lifo, fErrorCount, interned>>

\* The shader builder b appends declaration d to its live declaration buffer.
EmitDeclaration(t, b, d) ==
    /\ Running
    /\ Len(builder[b]) < MaxDecls
    /\ builder' = [builder EXCEPT ![b] = Append(@, d)]
    /\ LET c == InstancePtr(t)
           i == IF Live(c) THEN InnermostOn(ctx[c].fStack, b) ELSE 0
       IN  ctx' = IF i = 0 THEN ctx
                  ELSE [ctx EXCEPT ![c].fStack[i].log = Append(@, d)]
    /\ UNCHANGED <<variant, useNodePools, proc, registryVars, nextId, compiler,
                   alreadyIncluded, attachedPools, lastSet, lifo, fErrorCount, interned>>

\* ThreadContext::SetErrorReporter(errorReporter) on thread t.
SetErrorReporter(t, errorReporter) ==
    /\ Running
    /\ \/ /\ ~SkASSERT(errorReporter # Null)
          /\ proc' = Aborted("SetErrorReporter:138")
          /\ UNCHANGED compiler
       \/ /\ SkASSERT(errorReporter # Null)
          /\ \/ InstanceFails(t) /\ UNCHANGED compiler
             \/ /\ HasInstance(t)
                /\ compiler' = [compiler EXCEPT
                                  ![ctx[InstancePtr(t)].fCompiler].fErrors = errorReporter]
                /\ UNCHANGED proc
    /\ UNCHANGED <<variant, useNodePools, registryVars, ctx, nextId, alreadyIncluded,
                   attachedPools, builder, lastSet, lifo, fErrorCount, interned>>

\* Context().fErrors on thread t: the reporter GetErrorReporter() returns.
GetErrorReporter(t) == compiler[ctx[InstancePtr(t)].fCompiler].fErrors

\* Reporter pointer r is a ThreadContext's fDefaultErrorReporter.
IsDefaultReporter(r) == r[1] = "default"

\* Pointer r does not lead to an object: it is null, or a member of a destroyed context.
Dangling(r) ==
    \/ r = Null
    \/ r[1] \in {"default", "config", "pool"} /\ ctx[r[2]].state = "destroyed"

\* A default reporter whose handleError logs the message and returns.
handleError_Returns(r) == "returns"

\* handleError of reporter r: DefaultErrorReporter::handleError ends the process
\* with SK_ABORT; a driver's or the compiler's own reporter records and returns.
handleError(r) == IF IsDefaultReporter(r) THEN "abort" ELSE "returns"

\* ErrorReporter::error(msg, pos) on reporter r, before its handler runs: ++fErrorCount.
ErrorCounted(r) == [fErrorCount EXCEPT ![r] = @ + 1]

\* ThreadContext::ReportError(msg, pos) on thread t.
ReportError(t) ==
    /\ Running
    /\ \/ InstanceFails(t) /\ UNCHANGED fErrorCount
       \/ /\ HasInstance(t)
          /\ LET r == GetErrorReporter(t)
             IN  IF Dangling(r)
                 THEN \* a virtual call through a pointer to a destroyed reporter
                      /\ proc' \in {Aborted("handleError:147"), Undefined("ReportError:143")}
                      /\ UNCHANGED fErrorCount
                 ELSE /\ fErrorCount[r] < MaxErrors
                      /\ fErrorCount' = ErrorCounted(r)
                      /\ proc' = IF handleError(r) = "abort"
                                 THEN Aborted("handleError:147") ELSE proc
    /\ UNCHANGED <<variant, useNodePools, registryVars, ctx, nextId, compiler, alreadyIncluded,
                   attachedPools, builder, lastSet, lifo, interned>>

\* A Modifiers() that interns into the registry the active instance owns.
ActiveModifiersPool_OwnPool(t) == ModifiersPoolOf(InstancePtr(t))

\* Context().fModifiersPool on thread t.
ActiveModifiersPool(t) == compiler[ctx[InstancePtr(t)].fCompiler].fModifiersPool

\* ThreadContext::Modifiers(m) on thread t: ModifiersPool::add on the active registry.
Modifiers(t, m) ==
    /\ Running
    /\ \/ InstanceFails(t) /\ UNCHANGED interned
       \/ /\ HasInstance(t)
          /\ LET p == ActiveModifiersPool(t)
             IN  IF Dangling(p)
                 THEN \* a call through a null or destroyed ModifiersPool
                      /\ proc' \in {Aborted("crash"), Undefined("Modifiers:112")}
                      /\ UNCHANGED interned
                 ELSE /\ interned' = [interned EXCEPT ![p[2]] = @ \cup {m}]
                      /\ UNCHANGED proc
    /\ UNCHANGED <<variant, useNodePools, registryVars, ctx, nextId, compiler, alreadyIncluded,
                   attachedPools, builder, lastSet, lifo, fErrorCount>>

\* The DSL adds a program element to the active context's fProgramElements.
AddProgramElement(t) ==
    /\ Running
    /\ HasInstance(t)
    /\ ctx[InstancePtr(t)].fProgramElements < MaxElements
    /\ ctx' = [ctx EXCEPT ![InstancePtr(t)].fProgramElements = @ + 1]
    /\ UNCHANGED <<variant, useNodePools, proc, registryVars, nextId, compiler,
                   alreadyIncluded, attachedPools, builder, lastSet, lifo, fErrorCount, interned>>

\* The driver releases the compiled program: the elements and the symbol table
\* move out of the active context and its compiler.
ReleaseProgram(t) ==
    /\ Running
    /\ HasInstance(t)
    /\ SymbolTable(compiler[ctx[InstancePtr(t)].fCompiler]) # NullTable
    /\ ctx' = [ctx EXCEPT ![InstancePtr(t)].fProgramElements = 0]
    /\ compiler' = [compiler EXCEPT ![ctx[InstancePtr(t)].fCompiler].fSymbolTable = NullTable]
    /\ UNCHANGED <<variant, useNodePools, proc, registryVars, nextId,
                   alreadyIncluded, attachedPools, builder, lastSet, lifo, fErrorCount, interned>>

\* The compiler includes a builtin element of the module behind fBuiltins.
IncludeBuiltin(t) ==
    /\ Running
    /\ compiler[t].fBuiltins # Null
    /\ compiler[t].fBuiltins[2] \notin alreadyIncluded
    /\ alreadyIncluded' = alreadyIncluded \cup {compiler[t].fBuiltins[2]}
    /\ UNCHANGED <<variant, useNodePools, proc, registryVars, ctx, nextId, compiler,
                   attachedPools, builder, lastSet, lifo, fErrorCount, interned>>

(* --------------------------- specifications ---------------------------- *)
\* A build whose capabilities allow node pools.
InitFrames == Init /\ useNodePools

\* Threads installing, querying and clearing their contexts concurrently.
NextRegistry ==
    \E t \in Threads :
       \/ \E a \in CtorArgs : Construct(t, a)
       \/ \E p \in CtxIds \cup {NullCtx} : SetInstance(t, p)
       \/ CallInstance(t)
       \/ \E c \in CtxIds : Destroy(t, c)

SpecRegistry == InitFrames /\ [][NextRegistry]_vars


\* The thread that compiles in the single-threaded specification.
Compiling == CHOOSE t \in Threads : \A u \in Threads : t <= u

\* One thread constructing, installing, using and destroying contexts.
Next ==
    \/ \E a \in CtorArgs : Construct(Compiling, a)
    \/ \E c \in CtxIds : Destroy(Compiling, c)
    \/ \E p \in CtxIds \cup {NullCtx} : SetInstance(Compiling, p)
    \/ \E r \in UserReporters \cup {Null} : SetErrorReporter(Compiling, r)
    \/ AddProgramElement(Compiling)
    \/ ReleaseProgram(Compiling)
    \/ IncludeBuiltin(Compiling)

Spec == Init /\ [][Next]_vars

\* The arguments of the contexts that emit fragment processors.
EmittingCtorArgs == {a \in CtorArgs : a.kind = "fragment" /\ ~a.isModule}

\* The driver's compile of one program that emits fragment processors: it
\* constructs the context when no other is live (dsl::Start), installs it, emits
\* nested fragment processors into the shader builders, and clears the instance
\* (dsl::End).
NextFrames ==
    \/ \E a \in EmittingCtorArgs : NoLive(Compiling) /\ Construct(Compiling, a)
    \/ \E c \in CtxIds : Destroy(Compiling, c)
    \/ \E p \in CtxIds \cup {NullCtx} : SetInstance(Compiling, p)
    \/ \E pr \in Processors, e \in EmitArgsSet : StartFragmentProcessor(Compiling, pr, e)
    \/ EndFragmentProcessor(Compiling)
    \/ \E b \in EmitArgsSet, d \in Decls : EmitDeclaration(Compiling, b, d)

SpecFrames == InitFrames /\ [][NextFrames]_vars


\* One thread compiling with error reporting: contexts, reporters and errors.
NextErrors ==
    \/ \E a \in CtorArgs : Construct(Compiling, a)
    \/ \E c \in CtxIds : Destroy(Compiling, c)
    \/ \E p \in CtxIds \cup {NullCtx} : SetInstance(Compiling, p)
    \/ \E r \in UserReporters \cup {Null} : SetErrorReporter(Compiling, r)
    \/ ReportError(Compiling)

SpecErrors == Init /\ [][NextErrors]_vars


\* One thread compiling and interning modifiers.
NextModifiers ==
    \/ \E a \in CtorArgs : Construct(Compiling, a)
    \/ \E c \in CtxIds : Destroy(Compiling, c)
    \/ \E p \in CtxIds \cup {NullCtx} : SetInstance(Compiling, p)
    \/ \E m \in ModifierValues : Modifiers(Compiling, m)

SpecModifiers == Init /\ [][NextModifiers]_vars


(* ------------------------------ properties ----------------------------- *)
\* A step in which the constructor of context c ran.
CtorStep(c) == ctx[c].state = "unborn" /\ ctx'[c].state = "live"

\* A step in which the destructor of context c ran to its end.
DtorStep(c) == ctx[c].state = "live" /\ ctx'[c].state = "destroyed"

\* Contexts of compiler k whose destructor has run.
DestroyedOn(k) == {c \in CtxIds : ctx[c].fCompiler = k /\ ctx[c].state = "destroyed"}

\* The reporter, config and modifiers registry slots of cmp are those of snapshot.
SavedSlotsAre(cmp, snapshot) ==
    /\ cmp.fErrors = snapshot.fErrors
    /\ cmp.fConfig = snapshot.fConfig
    /\ cmp.fModifiersPool = snapshot.fModifiersPool

NestedBuiltin(a, b) ==
    /\ a < b
    /\ ctx[a].state = "live" /\ ctx[b].state = "live"
    /\ ctx[a].fCompiler = ctx[b].fCompiler
    /\ ctx[b].fConfig.fIsBuiltinCode

\* The table is a scope pushed by context c on the symbol table of module m.
IsChildOfModule(table, c, m) ==
    /\ Len(table) = Len(ParsedModule(m).fSymbols) + 1
    /\ Pop(table) = ParsedModule(m).fSymbols
    /\ table[Len(table)].id = <<"ctx", c>>

InstalledBy(t) == IF lastSet[t][1] = "set" THEN lastSet[t][2] ELSE NullCtx

\* C4: on every thread IsActive() is false before the thread's first
\* SetInstance(non-null), true from a SetInstance(non-null) until the thread's
\* next SetInstance(null), and false after that, in both build variants.
C4_IsActiveIffInstalled ==
    \A t \in Threads : IsActive(t) <=> (InstalledBy(t) # NullCtx)

\* One thread has installed and cleared a context and is inactive again while
\* another thread has a context installed and is active.
C4_Witness ==
    /\ Running
    /\ \E t, u \in Threads :
          /\ lastSet[t] = <<"set", NullCtx>> /\ ~IsActive(t)
          /\ InstalledBy(u) # NullCtx /\ IsActive(u)
          /\ DestroyedOn(t) # {}

\* C5: every thread has its own instance slot: a SetInstance on one thread
\* changes neither IsActive() nor Instance() on another thread and never
\* destroys a context another thread installed, and Instance() on a thread
\* yields the context that thread installed.
C5_SlotsIndependent ==
    /\ [](\A t \in Threads :
            InstalledBy(t) # NullCtx =>
               /\ Live(InstalledBy(t))
               /\ InstanceOutcomes(t) = {<<"ref", InstalledBy(t)>>})
    /\ [][\A t, u \in Threads :
            (t # u /\ \E p \in CtxIds \cup {NullCtx} : SetInstance(t, p)) =>
               /\ IsActive(u)' = IsActive(u)
               /\ InstanceOutcomes(u)' = InstanceOutcomes(u)]_vars

\* C6: Instance() on a thread whose IsActive() is false never returns a
\* context reference.
C6_InstanceFatalWhenInactive ==
    \A t \in Threads :
       (Running /\ ~IsActive(t)) => \A o \in InstanceOutcomes(t) : o[1] # "ref"

\* C7: a SetInstance(p) on a thread where a context is installed and p is
\* non-null, or where none is installed and p is null, aborts the process and
\* changes no registry slot; any other SetInstance(p) destroys the context that
\* was installed and makes p the installed one.
C7_SetInstanceProtocol ==
    [][\A t \in Threads, p \in CtxIds \cup {NullCtx} :
          SetInstance(t, p) =>
             IF IsActive(t) = (p # NullCtx)
             THEN proc'.status = "aborted" /\ UNCHANGED registryVars
             ELSE (proc'.status = "running") =>
                     /\ InstancePtr(t)' = p
                     /\ IsActive(t)' = (p # NullCtx)
                     /\ (InstancePtr(t) # NullCtx => ~Live(InstancePtr(t))')]_vars

\* C8: EndFragmentProcessor() on an active context whose frame stack is empty
\* aborts at its assertion, and no declaration buffer, frame stack or symbol
\* table changes.
C8_EndWithoutStartAborts ==
    [][\A t \in Threads :
          (EndFragmentProcessor(t) /\ HasInstance(t) /\ ctx[InstancePtr(t)].fStack = <<>>) =>
             /\ proc' = Aborted("EndFragmentProcessor:130")
             /\ UNCHANGED <<builder, ctx, compiler>>]_vars

\* The process aborted at EndFragmentProcessor's assertion: the active context's
\* frame stack is empty and its symbol table and a builder's buffer are still there.
C8_Witness ==
    /\ proc = Aborted("EndFragmentProcessor:130")
    /\ \E t \in Threads :
          /\ HasInstance(t)
          /\ ctx[InstancePtr(t)].fStack = <<>>
          /\ compiler[ctx[InstancePtr(t)].fCompiler].fSymbolTable # NullTable
          /\ \E b \in EmitArgsSet : builder[b] # <<>>

\* C9: for every frame of a live context the declarations the builder held
\* before the frame's Start sit unchanged in the frame's saved buffer, and the
\* builder's live buffer holds exactly what was emitted into it while the frame
\* was the innermost one on that builder (nothing right after the Start); the
\* matching End puts back exactly the buffer from before the Start and touches
\* no other builder.
C9_DeclarationsScopedPerFrame ==
    /\ [](\A c \in CtxIds :
            Live(c) =>
               LET stack == ctx[c].fStack
               IN  /\ \A i \in 1..Len(stack) : stack[i].fSavedDeclarations = stack[i].pre
                   /\ \A b \in EmitArgsSet :
                         InnermostOn(stack, b) # 0 =>
                            builder[b] = stack[InnermostOn(stack, b)].log)
    /\ [][\A c \in CtxIds :
            (Live(c) /\ ctx'[c].state = "live") =>
               LET old == ctx[c].fStack
                   new == ctx'[c].fStack
               IN  /\ Len(new) = Len(old) + 1 =>
                         LET b == FragBuilderOf(new[Len(new)].fEmitArgs)
                         IN  /\ builder'[b] = <<>>
                             /\ new[Len(new)].fSavedDeclarations = builder[b]
                             /\ SubSeq(new, 1, Len(old)) = old
                   /\ Len(new) = Len(old) - 1 =>
                         LET b == FragBuilderOf(old[Len(old)].fEmitArgs)
                         IN  /\ builder'[b] = old[Len(old)].pre
                             /\ new = SubSeq(old, 1, Len(new))
                             /\ \A b2 \in EmitArgsSet \ {b} : builder'[b2] = builder[b2]]_vars

\* Two frames nested on one builder: the inner frame saved what the outer one
\* emitted, and the builder's live buffer holds only the inner frame's declaration.
C9_Witness ==
    /\ Running
    /\ \E c \in CtxIds :
          /\ Live(c)
          /\ Len(ctx[c].fStack) = 2
          /\ LET outer == ctx[c].fStack[1]
                 inner == ctx[c].fStack[2]
                 b == FragBuilderOf(inner.fEmitArgs)
             IN  /\ FragBuilderOf(outer.fEmitArgs) = b
                 /\ outer.fSavedDeclarations # <<>>
                 /\ inner.fSavedDeclarations # <<>>
                 /\ inner.fSavedDeclarations # outer.fSavedDeclarations
                 /\ builder[b] # <<>>
                 /\ builder[b] # inner.fSavedDeclarations

\* C10: destroying a context whose frame stack is not empty is detected: the
\* destructor does not run to its end with the process going on as if the stack
\* were empty.
C10_DestructorDetectsOpenFrame ==
    [][\A c \in CtxIds :
          (Live(c) /\ ctx[c].fStack # <<>> /\ DtorStep(c)) => proc'.status # "running"]_vars

\* C11: the constructor of a context makes that context's default reporter the
\* compiler's active one, and only a constructor, a destructor or a
\* SetErrorReporter changes the active reporter; SetErrorReporter(r) with
\* non-null r makes r the active one; ReportError with a default reporter active
\* ends the process in handleError, and with r active it hands the error to r
\* and the process runs on.
C11_DefaultFatalUntilReporterSet ==
    /\ [][\A c \in CtxIds :
            CtorStep(c) => compiler'[ctx'[c].fCompiler].fErrors = DefaultReporterOf(c)]_vars
    /\ [][\A k \in Threads :
            compiler'[k].fErrors # compiler[k].fErrors =>
               \/ \E c \in CtxIds : CtorStep(c) \/ DtorStep(c)
               \/ \E t \in Threads, r \in UserReporters : SetErrorReporter(t, r)]_vars
    /\ [][\A t \in Threads, r \in UserReporters :
            (SetErrorReporter(t, r) /\ HasInstance(t)) =>
               /\ GetErrorReporter(t)' = r
               /\ UNCHANGED proc]_vars
    /\ [][\A t \in Threads :
            (ReportError(t) /\ HasInstance(t)) =>
               LET r == GetErrorReporter(t)
               IN  /\ (IsDefaultReporter(r) /\ ~Dangling(r)) =>
                         proc' = Aborted("handleError:147")
                   /\ r \in UserReporters =>
                         /\ UNCHANGED proc
                         /\ fErrorCount' = [fErrorCount EXCEPT ![r] = fErrorCount[r] + 1]]_vars

\* A driver's reporter took an error while it was the active one, and a later
\* error, reported after a constructor made a default reporter active again,
\* ended the process.
C11_Witness ==
    /\ proc = Aborted("handleError:147")
    /\ \E r \in UserReporters : fErrorCount[r] > 0
    /\ \E t \in Threads :
          /\ HasInstance(t)
          /\ IsDefaultReporter(GetErrorReporter(t)) /\ ~Dangling(GetErrorReporter(t))

\* C12: the constructor creates and attaches a pool iff the compile is not a
\* builtin-module compile and the node-pool capability and the settings'
\* memory-pool flag are both true, and attaches nothing otherwise; the
\* destructor detaches the context's pool iff the context created one and
\* touches no other pool; so the attached pools are always exactly those of the
\* live contexts that created one, and none is attached once no context is live.
C12_PoolAttachDetachBalanced ==
    /\ [](attachedPools = {c \in CtxIds : Live(c) /\ ctx[c].fPool})
    /\ []((\A c \in CtxIds : ~Live(c)) => attachedPools = {})
    /\ [][\A c \in CtxIds :
            CtorStep(c) =>
               /\ ctx'[c].fPool <=> /\ ~ctx'[c].fConfig.fIsBuiltinCode
                                    /\ useNodePools
                                    /\ ctx'[c].fSettings.fDSLUseMemoryPool
               /\ c \notin attachedPools
               /\ attachedPools' = IF ctx'[c].fPool THEN attachedPools \cup {c} ELSE attachedPools]_vars
    /\ [][\A c \in CtxIds :
            DtorStep(c) =>
               /\ c \in attachedPools <=> ctx[c].fPool
               /\ attachedPools' = attachedPools \ {c}]_vars

\* Two contexts were constructed and destroyed, the later one a pooled compile of
\* module 1 (its elements are still in the builtins slot), and no pool is attached.
C12_Witness ==
    /\ Running /\ useNodePools
    /\ attachedPools = {}
    /\ \E k \in Threads :
          /\ NoLive(k)
          /\ Cardinality(DestroyedOn(k)) >= 2
          /\ compiler[k].fBuiltins = ParsedModule(1).fElements

\* The live non-builtin contexts constructed before b on b's compiler.
OwnersBelow(b) ==
    {a \in CtxIds : /\ a < b /\ ctx[a].state = "live"
                    /\ ctx[a].fCompiler = ctx[b].fCompiler
                    /\ ~ctx[a].fConfig.fIsBuiltinCode}

\* The context whose registry a builtin-module context b nested in it shares.
Enclosing(b) == CHOOSE a \in OwnersBelow(b) : \A d \in OwnersBelow(b) : d <= a

\* Context b is a live builtin-module context, the newest of its compiler, nested
\* in a non-builtin one, after destructions in LIFO order only.
BuiltinNestedInOwner(b) ==
    /\ lifo
    /\ ctx[b].state = "live" /\ ctx[b].fConfig.fIsBuiltinCode
    /\ IsNewestLive(b)
    /\ OwnersBelow(b) # {}

\* C13: constructing a non-builtin context makes a fresh, empty registry owned
\* by that context the compiler's active one; constructing a builtin-module
\* context leaves the active registry as it is; during a builtin-module compile
\* nested in a non-builtin one the active registry is the enclosing context's,
\* Modifiers(m) adds m to it and to no other, and destroying the nested context
\* changes no entry of it.
C13_NestedBuiltinSharesRegistry ==
    /\ [][\A c \in CtxIds :
            CtorStep(c) =>
               LET k == ctx'[c].fCompiler
               IN  IF ctx'[c].fConfig.fIsBuiltinCode
                   THEN compiler'[k].fModifiersPool = compiler[k].fModifiersPool
                   ELSE /\ compiler'[k].fModifiersPool = ModifiersPoolOf(c)
                        /\ ctx'[c].fModifiersPool = ModifiersPoolOf(c)
                        /\ interned'[c] = {}]_vars
    /\ [](\A b \in CtxIds :
            BuiltinNestedInOwner(b) =>
               compiler[ctx[b].fCompiler].fModifiersPool = ModifiersPoolOf(Enclosing(b)))
    /\ [][\A b \in CtxIds, t \in Threads, m \in ModifierValues :
            (BuiltinNestedInOwner(b) /\ Modifiers(t, m) /\ HasInstance(t)
                /\ ctx[InstancePtr(t)].fCompiler = ctx[b].fCompiler) =>
               /\ interned' = [interned EXCEPT ![Enclosing(b)] = @ \cup {m}]
               /\ UNCHANGED proc]_vars
    /\ [][\A b \in CtxIds :
            (BuiltinNestedInOwner(b) /\ DtorStep(b)) =>
               /\ interned'[Enclosing(b)] = interned[Enclosing(b)]
               /\ compiler'[ctx[b].fCompiler].fModifiersPool = ModifiersPoolOf(Enclosing(b))]_vars

\* Context a was never installed, so every entry of its registry was interned
\* while the context nested in it was the active instance; that one is destroyed
\* and a's registry, still the active one, holds the entries.
C13_Witness ==
    /\ Running /\ lifo
    /\ \E a, b \in CtxIds :
          /\ a < b
          /\ ctx[a].state = "live" /\ ~Installed(a)
          /\ ctx[b].state = "destroyed"
          /\ ctx[a].fCompiler = ctx[b].fCompiler
          /\ interned[a] # {}
          /\ compiler[ctx[a].fCompiler].fModifiersPool = ModifiersPoolOf(a)

\* Pointer r leads to a member of a context whose destructor has run.
RefersToDestroyed(r) == r # Null /\ Dangling(r)

\* The destructor of b ends a run in which a, the context b was constructed
\* directly over, was destroyed before b, and leaves no context of the compiler live.
EnclosingDestroyedFirst(a, b) ==
    /\ a < b
    /\ ctx[a].fCompiler = ctx[b].fCompiler
    /\ ctx[a].state = "destroyed"
    /\ ctx[b].pre.fConfig = ConfigOf(a)
    /\ DtorStep(b)
    /\ \A c \in CtxIds : ctx'[c].fCompiler = ctx[b].fCompiler => ctx'[c].state # "live"

RunsDestructor(t, p) ==
    /\ Live(p)
    /\ \/ Destroy(t, p)
       \/ /\ SetInstanceDeletes(t) = p
          /\ \E q \in CtxIds \cup {NullCtx} : SetInstanceAsserts(t, q) /\ SetInstance(t, q)

\* C15: a destructor that finds the compiler's symbol table non-null sets it
\* to null and discards the context's program elements; one that finds it null
\* goes on if the context has no program elements and fails its assertion,
\* changing nothing, if it has; after every destructor that ran to its end the
\* symbol table is null.
C15_DestructorClearsTableOrAsserts ==
    [][\A t \in Threads, p \in CtxIds :
          RunsDestructor(t, p) =>
             LET k == ctx[p].fCompiler
             IN  IF compiler[k].fSymbolTable # NullTable \/ ctx[p].fProgramElements = 0
                 THEN /\ DtorStep(p)
                      /\ compiler'[k].fSymbolTable = NullTable
                      /\ ctx'[p].fProgramElements = 0
                      /\ UNCHANGED proc
                 ELSE /\ proc' = Aborted("~ThreadContext:76")
                      /\ UNCHANGED <<ctx, compiler>>]_vars

\* One destructor ran to its end and a later one, on a context that gained a
\* program element after its program was released, failed its assertion.
C15_Witness ==
    /\ proc = Aborted("~ThreadContext:76")
    /\ \E c, d \in CtxIds :
          /\ ctx[c].state = "destroyed"
          /\ ctx[d].state = "live"
          /\ ctx[d].fProgramElements > 0
          /\ compiler[ctx[d].fCompiler].fSymbolTable = NullTable

\* C16: right after the constructor ran with (kind, settings, module, isModule)
\* the compiler's active config is the new context's own config and holds
\* exactly that kind, those settings and that flag, so Settings() returns the
\* settings; SymbolTable() is one new scope on top of the module's symbol table,
\* tagged builtin iff isModule; the new scope holds the settings' external
\* functions and the module's scopes hold none of them.
C16_ConstructorInstallsConfigAndScope ==
    [][\A t \in Threads, a \in CtorArgs :
          Construct(t, a) =>
             LET c == nextId
                 table == compiler'[t].fSymbolTable
                 module == ParsedModule(a.module).fSymbols
             IN  /\ compiler'[t].fConfig = ConfigOf(c)
                 /\ ctx'[c].fConfig = [fKind |-> a.kind, fSettings |-> a.settings,
                                       fIsBuiltinCode |-> a.isModule]
                 /\ Settings(compiler[t])' = a.settings
                 /\ Len(table) = Len(module) + 1
                 /\ Pop(table) = module
                 /\ table[Len(table)].builtin = a.isModule
                 /\ table[Len(table)].symbols = a.settings.fExternalFunctions
                 /\ \A i \in 1..Len(module) :
                       table[i].symbols \cap a.settings.fExternalFunctions = {}]_vars

\* A second context was constructed with external functions over a live one: the
\* scope it pushed holds them, the module's scope below holds none.
C16_Witness ==
    /\ Running
    /\ \E c \in CtxIds, k \in Threads :
          /\ c > 1 /\ Live(c) /\ Live(1)
          /\ ctx[c].fCompiler = k
          /\ compiler[k].fConfig = ConfigOf(c)
          /\ Settings(compiler[k]).fExternalFunctions # {}
          /\ Len(compiler[k].fSymbolTable) = 2
          /\ compiler[k].fSymbolTable[2].id = <<"ctx", c>>
          /\ compiler[k].fSymbolTable[2].symbols = Settings(compiler[k]).fExternalFunctions
          /\ compiler[k].fSymbolTable[1].symbols = {}

\* The symbol table the constructor of live context c left in its compiler.
ConstructedTable(c) ==
    LET m == CHOOSE m \in Modules :
                 compiler[ctx[c].fCompiler].fBuiltins = ParsedModule(m).fElements
    IN  setupSymbolTable(ParsedModule(m).fSymbols, ctx[c].fConfig.fIsBuiltinCode,
                         ctx[c].fSettings, c)

\* C17: for a live context the symbol table is the table its constructor left
\* with one more scope per frame of the frame stack; StartFragmentProcessor
\* pushes exactly one frame and one scope and EndFragmentProcessor pops exactly
\* one of each, so with an empty frame stack SymbolTable() is again the scope the
\* constructor pushed.
C17_ScopeDepthTracksFrames ==
    /\ [](\A c \in CtxIds :
            Live(c) =>
               LET table == compiler[ctx[c].fCompiler].fSymbolTable
                   base == ConstructedTable(c)
               IN  /\ Len(table) = Len(base) + Len(ctx[c].fStack)
                   /\ SubSeq(table, 1, Len(base)) = base
                   /\ ctx[c].fStack = <<>> => table = base)
    /\ [][\A c \in CtxIds :
            (Live(c) /\ ctx'[c].state = "live") =>
               LET k == ctx[c].fCompiler
                   old == ctx[c].fStack
                   new == ctx'[c].fStack
               IN  /\ Len(new) \in {Len(old) - 1, Len(old), Len(old) + 1}
                   /\ Len(new) = Len(old) + 1 =>
                         /\ Pop(compiler'[k].fSymbolTable) = compiler[k].fSymbolTable
                         /\ SubSeq(new, 1, Len(old)) = old
                   /\ Len(new) = Len(old) - 1 =>
                         /\ compiler'[k].fSymbolTable = Pop(compiler[k].fSymbolTable)
                         /\ new = SubSeq(old, 1, Len(new))
                   /\ Len(new) = Len(old) =>
                         compiler'[k].fSymbolTable = compiler[k].fSymbolTable]_vars

\* Two frames are open on a live context: its symbol table is the constructor's
\* table with the two frames' scopes on top.
C17_Witness ==
    /\ Running
    /\ \E c \in CtxIds :
          /\ Live(c)
          /\ Len(ctx[c].fStack) = 2
          /\ LET table == compiler[ctx[c].fCompiler].fSymbolTable
             IN  /\ Len(table) = Len(ConstructedTable(c)) + 2
                 /\ table[Len(table) - 1].id = <<"fp", 1>>
                 /\ table[Len(table)].id = <<"fp", 2>>

\* C18: the snapshots a context took at its construction stay what the
\* constructor found, whatever SetErrorReporter calls follow; the destructor
\* sets the error reporter, config and modifiers registry slots to those
\* snapshots, so a driver's reporter that is active at destruction, and was not
\* the one snapshotted, is no longer active afterwards.
C18_ReporterDoesNotOutliveContext ==
    /\ [](\A c \in CtxIds :
            Live(c) => /\ ctx[c].fOldErrorReporter = ctx[c].pre.fErrors
                       /\ ctx[c].fOldConfig = ctx[c].pre.fConfig
                       /\ ctx[c].fOldModifiersPool = ctx[c].pre.fModifiersPool)
    /\ [][\A t \in Threads, r \in UserReporters : SetErrorReporter(t, r) => UNCHANGED ctx]_vars
    /\ [][\A c \in CtxIds :
            DtorStep(c) =>
               LET k == ctx[c].fCompiler
               IN  /\ compiler'[k].fErrors = ctx[c].fOldErrorReporter
                   /\ compiler'[k].fConfig = ctx[c].fOldConfig
                   /\ compiler'[k].fModifiersPool = ctx[c].fOldModifiersPool
                   /\ (compiler[k].fErrors \in UserReporters
                         /\ ctx[c].fOldErrorReporter \notin UserReporters) =>
                         compiler'[k].fErrors # compiler[k].fErrors]_vars

\* A driver's reporter was installed and took an error; the context is
\* destroyed and the compiler's own reporter is the active one again.
C18_Witness ==
    /\ Running
    /\ \E k \in Threads :
          /\ NoLive(k)
          /\ DestroyedOn(k) # {}
          /\ \E r \in UserReporters : fErrorCount[r] > 0
          /\ compiler[k].fErrors = BaseReporter(k)

\* C19: in every state and on every thread IsActive() is true iff the pointer
\* Instance() dereferences there is non-null and leads to a context that has not
\* been destroyed.
C19_IsActiveAgreesWithInstance ==
    \A t \in Threads :
       IsActive(t) <=> (InstancePtr(t) # NullCtx /\ Live(InstancePtr(t)))

=============================================================================
